---- MODULE Spec2Model ----
(***************************************************************************)
(* State-machine model of ollama_cli/main.py: the Textual application      *)
(* OllamaCLI with its three screens (ModelsScreen, ChatScreen,             *)
(* ErrorScreen), the chat turn handler ChatScreen.on_input_submitted with  *)
(* its streaming loop, and the file / directory context loaders.           *)
(*                                                                         *)
(* Text is a sequence of atoms.  An atom is one character of an input      *)
(* (user text, a delta, a file name, a file's content) or one string       *)
(* literal of the source ("An error occurred: ", "--- FILE: ", ...).       *)
(* String concatenation is \o.                                             *)
(*                                                                         *)
(* What the widgets display (the Markdown log, the #file_status and        *)
(* #loading_status labels, focus) belongs to the rendering library and is  *)
(* not state of the model; Input.disabled, which decides whether a submit  *)
(* can arrive, is.                                                         *)
(***************************************************************************)
EXTENDS Integers, Sequences, FiniteSets, TLC

(***************************************************************************)
(* Bounds of the model.                                                    *)
(***************************************************************************)
MaxSessions == 2   \* ChatScreen objects ever created
MaxTurns    == 2   \* accepted (non-empty) submits over all ChatScreens

(***************************************************************************)
(* Inputs.                                                                 *)
(***************************************************************************)
\* Values of Input.Submitted.value: the empty text and a non-empty one.
UserTexts == { <<>>, <<"h">> }

\* The streams the server answers with, each the sequence of the
\* part["message"]["content"] it yields before it completes: no part at all,
\* and the text "ab" cut in three ways, one with an empty part.  A stream
\* may fail after any number of its parts.
Streams ==
  { <<>>,
    << <<"a">>, <<"b">> >>,
    << <<"a", "b">> >>,
    << <<"a">>, <<>>, <<"b">> >> }

\* The parts that occur in Streams.
Chunks == UNION { { st[i] : i \in 1..Len(st) } : st \in Streams }

\* str(e) of an exception raised by the streaming request.
ErrorTexts == { <<"x">> }

\* Results of ollama.Client.list(): a failure, or the "models" list, each
\* entry given by its "model" name (<<>> for an entry without a name).
Catalogs ==
  { [ok |-> FALSE, kind |-> "ResponseError", models |-> <<>>],
    [ok |-> FALSE, kind |-> "Exception",     models |-> <<>>],
    [ok |-> TRUE,  kind |-> "",              models |-> <<>>],
    [ok |-> TRUE,  kind |-> "",              models |-> << <<"m">> >>],
    [ok |-> TRUE,  kind |-> "",              models |-> << <<>> >>],
    [ok |-> TRUE,  kind |-> "",              models |-> << <<"m">>, <<>> >>] }

\* The names that occur in Catalogs.
ModelNames == { <<"m">> }

(***************************************************************************)
(* Text helpers.                                                           *)
(***************************************************************************)
RECURSIVE Flatten(_)
\* The concatenation s[1] ++ s[2] ++ ... of a sequence of texts.
Flatten(s) == IF s = <<>> THEN <<>> ELSE Head(s) \o Flatten(Tail(s))

\* t occurs in s as a contiguous run (Python's `t in s`).
Contains(s, t) ==
  \E i \in 1..(Len(s) - Len(t) + 1) : SubSeq(s, i, i + Len(t) - 1) = t

\* s starts with t.
IsPrefix(t, s) == Len(t) <= Len(s) /\ SubSeq(s, 1, Len(t)) = t

(***************************************************************************)
(* The filesystem under DirectoryTree(".").  A node is named by its path,  *)
(* the sequence of its components from the root; a component is a text of  *)
(* characters.  entries is a directory's listing in os.scandir order;      *)
(* read is "ok", or the exception open()/read() raises.                    *)
(***************************************************************************)
NameGit   == <<".", "g", "i", "t">>
NameVenv  == <<".", "v", "e", "n", "v">>
NameCache == <<"_", "_", "p", "y", "c", "a", "c", "h", "e", "_", "_">>
NameAPy   == <<"a", ".", "p", "y">>
NameCBin  == <<"c", ".", "b", "i", "n">>
NameCfg   == <<"c", "f", "g">>

File(path, read, content) ==
  [path |-> path, dir |-> FALSE, entries |-> <<>>, read |-> read, content |-> content]

Dir(path, entries) ==
  [path |-> path, dir |-> TRUE, entries |-> entries, read |-> "ok", content |-> <<>>]

Tree ==
  { Dir(<<>>, <<NameAPy, NameGit, NameCBin>>),
    File(<<NameAPy>>, "ok", <<"p">>),
    File(<<NameCBin>>, "UnicodeDecodeError", <<>>),
    Dir(<<NameGit>>, <<NameCfg>>),
    File(<<NameGit, NameCfg>>, "ok", <<"g">>) }

Node(tree, path) == CHOOSE n \in tree : n.path = path

\* Filesystems for the directory walk: a file f at the root, whose read
\* gives r, beside a directory d1 that holds a readable file cfg and a
\* directory d2 with a readable file f of its own.
NameSub     == <<"s", "u", "b">>
NameBPyc    == <<"b", ".", "p", "y", "c">>
NameDotLock == <<".", "l", "o", "c", "k">>
NameCLock   == <<"c", ".", "l", "o", "c", "k">>

MkTree(d1, d2, f, r) ==
  { Dir(<<>>, <<f, d1>>),
    File(<<f>>, r, <<"p">>),
    Dir(<<d1>>, <<NameCfg, d2>>),
    File(<<d1, NameCfg>>, "ok", <<"g">>),
    Dir(<<d1, d2>>, <<f>>),
    File(<<d1, d2, f>>, "ok", <<"q">>) }

Trees ==
  { MkTree(d1, d2, f, r) :
      d1 \in {NameGit, NameSub, NameCache},
      d2 \in {NameVenv, NameSub},
      f  \in {NameAPy, NameBPyc, NameDotLock, NameCLock},
      r  \in {"ok", "UnicodeDecodeError", "PermissionError"} }

\* The nodes the user selects in the file browser.
SelectedFiles == { <<NameAPy>>, <<NameCBin>> }

SelectedDirs == { <<>> }

RECURSIVE JoinPath(_)
\* "/".join(components)
JoinPath(path) ==
  IF Len(path) = 0 THEN <<>>
  ELSE IF Len(path) = 1 THEN path[1]
  ELSE path[1] \o <<"/">> \o JoinPath(Tail(path))

\* str(event.path) for a node of DirectoryTree("."): "." for the root.
PathStr(path) == IF path = <<>> THEN <<".">> ELSE JoinPath(path)

\* os.path.basename of str(event.path).
BaseName(path) == IF path = <<>> THEN <<".">> ELSE path[Len(path)]

\* os.path.join(root, name)
OsJoin(root, name) == root \o <<"/">> \o name

\* Index of the last "." of a name, 0 when there is none.
LastDot(name) ==
  LET dots == { i \in 1..Len(name) : name[i] = "." }
  IN  IF dots = {} THEN 0 ELSE CHOOSE i \in dots : \A j \in dots : j <= i

\* os.path.splitext(name)[1]: the text from the last dot on, provided some
\* character other than "." precedes that dot (leading dots are not an
\* extension); otherwise empty.
SplitExt(name) ==
  LET d == LastDot(name)
  IN  IF d > 0 /\ \E i \in 1..(d - 1) : name[i] # "."
      THEN SubSeq(name, d, Len(name))
      ELSE <<>>

ignored_dirs == { NameGit, NameVenv, NameCache }

ignored_extensions == { <<".", "p", "y", "c">>, <<".", "l", "o", "c", "k">> }

RECURSIVE SelectNames(_, _, _, _)
\* The entries of the directory `path` that are directories (wantDir) or
\* files (~wantDir), in listing order: os.walk's dirs and nondirs.
SelectNames(tree, path, names, wantDir) ==
  IF names = <<>> THEN <<>>
  ELSE LET n    == Head(names)
           rest == SelectNames(tree, path, Tail(names), wantDir)
       IN  IF Node(tree, Append(path, n)).dir = wantDir THEN <<n>> \o rest ELSE rest

\* Mutant: os.walk descends into every directory.
KeepAllDirs(dirs) == dirs

RECURSIVE DropIgnoredDirs(_)
\* dirs[:] = [d for d in dirs if d not in ignored_dirs]
DropIgnoredDirs(dirs) ==
  IF dirs = <<>> THEN <<>>
  ELSE IF Head(dirs) \in ignored_dirs THEN DropIgnoredDirs(Tail(dirs))
  ELSE <<Head(dirs)>> \o DropIgnoredDirs(Tail(dirs))

RECURSIVE DropIgnoredFiles(_)
\* the files the loop does not `continue` past on their extension
DropIgnoredFiles(files) ==
  IF files = <<>> THEN <<>>
  ELSE IF SplitExt(Head(files)) \in ignored_extensions THEN DropIgnoredFiles(Tail(files))
  ELSE <<Head(files)>> \o DropIgnoredFiles(Tail(files))

RECURSIVE WalkFiles(_, _, _)
RECURSIVE WalkDirs(_, _, _, _)
\* The files the two nested loops visit, in order, for os.walk rooted at the
\* directory `path` whose string is `root`: each as [path, name] where name
\* is os.path.join(root, file).  os.walk lists a directory, yields it, then
\* descends into what the caller left in dirs.
WalkFiles(tree, path, root) ==
  LET entries == Node(tree, path).entries
      dirs    == DropIgnoredDirs(SelectNames(tree, path, entries, TRUE))
      files   == DropIgnoredFiles(SelectNames(tree, path, entries, FALSE))
      here    == [i \in 1..Len(files) |->
                    [path |-> Append(path, files[i]), name |-> OsJoin(root, files[i])]]
  IN  here \o WalkDirs(tree, path, root, dirs)

WalkDirs(tree, path, root, dirs) ==
  IF dirs = <<>> THEN <<>>
  ELSE WalkFiles(tree, Append(path, Head(dirs)), OsJoin(root, Head(dirs)))
       \o WalkDirs(tree, path, root, Tail(dirs))

RECURSIVE ReadAll(_, _, _, _)
\* The loop body over the visited files: a readable file adds its block to
\* full_context and 1 to file_count; IOError / UnicodeDecodeError skips it.
ReadAll(tree, visited, full_context, file_count) ==
  IF visited = <<>> THEN [full_context |-> full_context, file_count |-> file_count]
  ELSE LET v == Head(visited)
           n == Node(tree, v.path)
       IN  IF n.read = "ok"
           THEN ReadAll(tree, Tail(visited),
                        full_context \o <<"--- FILE: ">> \o v.name \o <<" ---\n">>
                                     \o n.content \o <<"\n\n">>,
                        file_count + 1)
           ELSE ReadAll(tree, Tail(visited), full_context, file_count)

\* self.file_context after a successful file selection: (label, payload).
FileBundle(tree, path) ==
  << <<"file '">> \o BaseName(path) \o <<"'">>,
     <<"--- FILE: ">> \o PathStr(path) \o <<" ---\n">> \o Node(tree, path).content >>

\* self.file_context after a directory selection: (label, payload).
DirBundle(tree, path) ==
  LET r == ReadAll(tree, WalkFiles(tree, path, PathStr(path)), <<>>, 0)
  IN  << <<ToString(r.file_count)>> \o <<" files from '">> \o BaseName(path) \o <<"'">>,
         r.full_context >>

DirFileCount(tree, path) ==
  ReadAll(tree, WalkFiles(tree, path, PathStr(path)), <<>>, 0).file_count

(***************************************************************************)
(* Program state.                                                          *)
(***************************************************************************)
VARIABLES
  app,            \* "init" before OllamaCLI.on_mount, "running", "exited"
  screen_stack,   \* App.screen_stack: the base screen, then the pushed screens
  chats,          \* the ChatScreen objects created so far, by creation order
  turns_taken,    \* non-empty submits accepted so far, over all ChatScreens
  fs              \* the filesystem under the working directory

vars == <<app, screen_stack, chats, turns_taken, fs>>

None == <<>>     \* Python's None for ChatScreen.file_context

Host == <<"host">>   \* self.ollama_host

Cursor == <<" [cursor]">>   \* the " ▋" mark of a streaming message

(***************************************************************************)
(* Screens on the stack.  mounted: the screen's on_mount has run.          *)
(***************************************************************************)
Screen(kind, mounted, sid, error_message) ==
  [kind |-> kind, mounted |-> mounted, rows |-> <<>>, sid |-> sid,
   error_message |-> error_message]

DefaultScreen == Screen("Default", TRUE, 0, <<>>)

NewModelsScreen == Screen("Models", FALSE, 0, <<>>)

NewErrorScreen(error_message) == Screen("Error", TRUE, 0, error_message)

NewChatEntry(sid) == Screen("Chat", FALSE, sid, <<>>)

\* ChatScreen.__init__ followed by compose.  disabled is Input.disabled; pc
\* is "streaming" from the submit step of on_input_submitted to the end of
\* its finally block; requests counts the streaming requests made and not
\* yet ended; api_messages, full_response are the handler's locals and
\* delivered the parts its stream has yielded so far.
NewChatScreen(model_name) ==
  [model_name    |-> model_name,
   messages      |-> <<>>,
   file_context  |-> None,
   disabled      |-> FALSE,
   pc            |-> "idle",
   requests      |-> 0,
   api_messages  |-> <<>>,
   full_response |-> <<>>,
   delivered     |-> <<>>]

\* A ChatScreen that nothing refers to any more: it is off the screen stack
\* and no handler of it is running.  The object is garbage.
Gone == [NewChatScreen(<<>>) EXCEPT !.pc = "gone"]

\* The ChatScreen s is a screen of the stack.
OnStack(stack, s) == \E i \in 1..Len(stack) : stack[i].kind = "Chat" /\ stack[i].sid = s

\* The ChatScreens after the unreferenced ones are collected.
Collect(cs, stack) ==
  [s \in 1..Len(cs) |->
     IF cs[s].pc = "idle" /\ ~OnStack(stack, s) THEN Gone ELSE cs[s]]

Message(role, content) == [role |-> role, content |-> content]

Top == screen_stack[Len(screen_stack)]

Push(stack, screen) == Append(stack, screen)

\* App.pop_screen: the top screen leaves the stack.
Pop(stack) == SubSeq(stack, 1, Len(stack) - 1)

\* Mutant: the new screen is pushed on the old one.
SwitchAsPush(stack, screen) == Append(stack, screen)

\* App.switch_screen: the top screen is replaced.
Switch(stack, screen) == Append(Pop(stack), screen)

ReplaceTop(stack, screen) == [stack EXCEPT ![Len(stack)] = screen]

Init ==
  /\ app = "init"
  /\ screen_stack = <<DefaultScreen>>
  /\ chats = <<>>
  /\ turns_taken = 0
  /\ fs = Tree

(***************************************************************************)
(* OllamaCLI.on_mount: startup routing.                                    *)
(***************************************************************************)
\* Mutant: the first of several models is opened directly.
OpensFirstModel(models) == Len(models) >= 1 /\ models[1] # <<>>

\* len(models) == 1 and models[0].get("model") is not empty
OpensOnlyModel(models) == Len(models) = 1 /\ models[1] # <<>>

OllamaCLI_on_mount(cat) ==
  /\ app = "init"
  /\ app' = "running"
  /\ UNCHANGED <<turns_taken, fs>>
  /\ IF ~cat.ok
     THEN /\ chats' = chats
          /\ screen_stack' =
               Push(screen_stack,
                    NewErrorScreen(IF cat.kind = "ResponseError"
                                   THEN <<"Could not connect to Ollama at ">> \o Host
                                   ELSE <<"x">>))
     ELSE IF OpensOnlyModel(cat.models)
     THEN /\ chats' = Append(chats, NewChatScreen(cat.models[1]))
          /\ screen_stack' = Push(screen_stack, NewChatEntry(Len(chats) + 1))
     ELSE /\ chats' = chats
          /\ screen_stack' = Push(screen_stack, NewModelsScreen)

(***************************************************************************)
(* ModelsScreen.                                                           *)
(***************************************************************************)
RECURSIVE NamedRows(_)
\* the keys of the rows added: the entries that have a name, in order
NamedRows(models) ==
  IF models = <<>> THEN <<>>
  ELSE IF Head(models) = <<>> THEN NamedRows(Tail(models))
  ELSE <<Head(models)>> \o NamedRows(Tail(models))

\* Mutant: a list whose entries all lack a name counts as empty.
NoNamedModel(models) == NamedRows(models) = <<>>

\* if not models
NoModels(models) == models = <<>>

\* query_models on the ModelsScreen at the top of `stack`: the table is
\* cleared, then filled, or an ErrorScreen is pushed.
query_models(stack, cat) ==
  LET me      == stack[Len(stack)]
      cleared == [me EXCEPT !.rows = <<>>, !.mounted = TRUE]
  IN  IF ~cat.ok
      THEN Push(ReplaceTop(stack, cleared), NewErrorScreen(<<"x">>))
      ELSE IF NoModels(cat.models)
      THEN Push(ReplaceTop(stack, cleared),
                NewErrorScreen(<<"No models found. Pull a model with 'ollama run <model_name>'">>))
      ELSE ReplaceTop(stack, [cleared EXCEPT !.rows = NamedRows(cat.models)])

ModelsScreen_on_mount(cat) ==
  /\ app = "running"
  /\ Top.kind = "Models" /\ ~Top.mounted
  /\ screen_stack' = query_models(screen_stack, cat)
  /\ UNCHANGED <<app, chats, turns_taken, fs>>

ModelsScreen_action_refresh_models(cat) ==
  /\ app = "running"
  /\ Top.kind = "Models" /\ Top.mounted
  /\ screen_stack' = query_models(screen_stack, cat)
  /\ UNCHANGED <<app, chats, turns_taken, fs>>

ModelsScreen_on_data_table_row_selected(model_name) ==
  /\ app = "running"
  /\ Top.kind = "Models" /\ Top.mounted
  /\ \E i \in 1..Len(Top.rows) : Top.rows[i] = model_name
  /\ model_name # <<>>
  /\ Len(chats) < MaxSessions
  /\ chats' = Append(chats, NewChatScreen(model_name))
  /\ screen_stack' = Push(screen_stack, NewChatEntry(Len(chats) + 1))
  /\ UNCHANGED <<app, turns_taken, fs>>

(***************************************************************************)
(* ChatScreen.                                                             *)
(***************************************************************************)
\* The ChatScreen that is the active screen, with its on_mount done.
ChatActive(s) ==
  /\ app = "running"
  /\ Top.kind = "Chat" /\ Top.sid = s /\ Top.mounted

ChatScreen_on_mount ==
  /\ app = "running"
  /\ Top.kind = "Chat" /\ ~Top.mounted
  /\ screen_stack' = ReplaceTop(screen_stack, [Top EXCEPT !.mounted = TRUE])
  /\ chats' = chats
  /\ UNCHANGED <<app, turns_taken, fs>>

\* Mutant: a failed read drops the pending context.
FileContextDroppedOnFailedRead(file_context) == None

\* except Exception: only #file_status is updated
FileContextAfterFailedRead(file_context) == file_context

ChatScreen_on_directory_tree_file_selected(s, path) ==
  /\ ChatActive(s)
  /\ \E n \in fs : n.path = path /\ ~n.dir
  /\ chats' =
       IF Node(fs, path).read = "ok"
       THEN [chats EXCEPT ![s].file_context = FileBundle(fs, path)]
       ELSE [chats EXCEPT ![s].file_context =
                            FileContextAfterFailedRead(chats[s].file_context)]
  /\ UNCHANGED <<app, screen_stack, turns_taken, fs>>

ChatScreen_on_directory_tree_directory_selected(s, path) ==
  /\ ChatActive(s)
  /\ \E n \in fs : n.path = path /\ n.dir
  /\ chats' =
       [chats EXCEPT ![s].file_context = DirBundle(fs, path)]
  /\ UNCHANGED <<app, screen_stack, turns_taken, fs>>

(***************************************************************************)
(* ChatScreen.on_input_submitted, cut at its awaits: the submit step up to *)
(* the request, one step per part of the stream, and the two ways the      *)
(* stream ends, each followed by the finally block.                        *)
(***************************************************************************)
\* Mutant: the empty check is missing.
NeverEmptySubmission(user_message) == FALSE

\* if not user_message: return
IsEmptySubmission(user_message) == user_message = <<>>

\* Mutant: the Input is left enabled while the stream runs.
InputLeftEnabledOnSubmit == FALSE

\* input_widget.disabled = True
InputDisabledOnSubmit == TRUE

\* Mutant: the Input is not re-enabled when the stream ends.
InputStaysDisabledAfterStream == TRUE

\* input_widget.disabled = False, in the finally block
InputDisabledAfterStream == FALSE

\* Mutant: the placeholder is not appended.
HistoryWithoutPlaceholder(messages, user_message) ==
  messages \o << [role |-> "user", content |-> user_message] >>

\* Mutant: the placeholder is appended before the User message.
HistoryPlaceholderFirst(messages, user_message) ==
  messages \o << [role |-> "assistant", content |-> <<>>],
                 [role |-> "user", content |-> user_message] >>

\* the two appends to self.messages
HistoryAfterSubmit(messages, user_message) ==
  messages \o << Message("user", user_message), Message("assistant", <<>>) >>

\* Mutant: the pending context is not merged into the prompt.
PromptWithoutContext(file_context, user_message) == user_message

\* prompt_for_model
PromptForModel(file_context, user_message) ==
  IF file_context # None
  THEN <<"The user has provided context from ">> \o file_context[1] \o <<".\n">>
       \o file_context[2] \o <<"\n\n">>
       \o <<"Based on this, respond to: ">> \o user_message
  ELSE user_message

\* Mutant: the pending context is not cleared.
FileContextKept(file_context) == file_context

\* self.file_context = None, once the prompt is built
FileContextAfterSubmit(file_context) == None

\* Mutant: only the placeholder is cut, the stored User message is sent too.
ApiMessagesCutOne(messages, prompt_for_model) ==
  SubSeq(messages, 1, Len(messages) - 1)
  \o << [role |-> "user", content |-> prompt_for_model] >>

\* api_messages = self.messages[:-2] + [{"role": "user", "content": prompt_for_model}]
ApiMessages(messages, prompt_for_model) ==
  SubSeq(messages, 1, Len(messages) - 2) \o << Message("user", prompt_for_model) >>

\* if chunk: full_response += chunk
FullResponseAfterPart(full_response, chunk) ==
  IF chunk # <<>> THEN full_response \o chunk ELSE full_response

\* self.messages[-1]["content"] = full_response + " ▋"
ContentWhileStreaming(full_response) == full_response \o Cursor

\* Mutant: the cursor mark stays on the final content.
ContentOnCompletionWithCursor(full_response) == full_response \o Cursor

\* self.messages[-1]["content"] = full_response
ContentOnCompletion(full_response) == full_response

\* self.messages[-1]["content"] = f"An error occurred: {e}"
ContentOnFailure(full_response, e) == <<"An error occurred: ">> \o e

\* Mutant: the content is stored in a message of its own.
AppendContent(messages, content) ==
  Append(messages, [role |-> "assistant", content |-> content])

\* self.messages[-1]["content"] = content
SetLastContent(messages, content) ==
  [messages EXCEPT ![Len(messages)].content = content]

\* Input.Submitted reaches the handler only from an enabled Input.
ChatScreen_on_input_submitted(s, user_message) ==
  /\ ChatActive(s)
  /\ ~chats[s].disabled
  /\ user_message \in UserTexts
  /\ UNCHANGED <<app, screen_stack, fs>>
  /\ IF IsEmptySubmission(user_message)
     THEN UNCHANGED <<chats, turns_taken>>
     ELSE /\ turns_taken < MaxTurns
          /\ turns_taken' = turns_taken + 1
          /\ LET c        == chats[s]
                 messages == HistoryAfterSubmit(c.messages, user_message)
                 prompt   == PromptForModel(c.file_context, user_message)
             IN  chats' =
                   [chats EXCEPT ![s] =
                      [c EXCEPT !.disabled      = InputDisabledOnSubmit,
                                !.messages      = messages,
                                !.file_context  = IF c.file_context # None
                                                  THEN FileContextAfterSubmit(c.file_context)
                                                  ELSE c.file_context,
                                !.api_messages  = ApiMessages(messages, prompt),
                                !.full_response = <<>>,
                                !.delivered     = <<>>,
                                !.requests      = c.requests + 1,
                                !.pc            = "streaming"]]

\* One iteration of `async for part in ...`: the server yields a part.
\* api_messages is not read after the request is made; the model holds it
\* while the request is on its way and drops it when the server answers.
StreamPart(s, chunk) ==
  /\ app = "running"
  /\ s \in 1..Len(chats)
  /\ chats[s].pc = "streaming"
  /\ chunk \in Chunks
  /\ \E st \in Streams : IsPrefix(Append(chats[s].delivered, chunk), st)
  /\ LET c    == chats[s]
         full == FullResponseAfterPart(c.full_response, chunk)
     IN  chats' =
           [chats EXCEPT ![s] =
              [c EXCEPT !.full_response = full,
                        !.api_messages  = <<>>,
                        !.delivered     = Append(c.delivered, chunk),
                        !.messages      = IF chunk # <<>>
                                          THEN SetLastContent(c.messages,
                                                              ContentWhileStreaming(full))
                                          ELSE c.messages]]
  /\ UNCHANGED <<app, screen_stack, turns_taken, fs>>

\* The finally block, after the last content was set.
StreamEnds(c, content) ==
  [c EXCEPT !.messages      = SetLastContent(c.messages, content),
            !.disabled      = InputDisabledAfterStream,
            !.api_messages  = <<>>,
            !.full_response = <<>>,
            !.delivered     = <<>>,
            !.requests      = c.requests - 1,
            !.pc            = "idle"]

\* The stream ends normally: the loop exits.
StreamCompleted(s) ==
  /\ app = "running"
  /\ s \in 1..Len(chats)
  /\ chats[s].pc = "streaming"
  /\ chats[s].delivered \in Streams
  /\ chats' = Collect([chats EXCEPT ![s] =
                          StreamEnds(chats[s], ContentOnCompletion(chats[s].full_response))],
                       screen_stack)
  /\ UNCHANGED <<app, screen_stack, turns_taken, fs>>

\* The request or the stream raises: the except block.
StreamFailed(s, e) ==
  /\ app = "running"
  /\ s \in 1..Len(chats)
  /\ chats[s].pc = "streaming"
  /\ e \in ErrorTexts
  /\ chats' = Collect([chats EXCEPT ![s] =
                          StreamEnds(chats[s], ContentOnFailure(chats[s].full_response, e))],
                       screen_stack)
  /\ UNCHANGED <<app, screen_stack, turns_taken, fs>>

\* self.app.switch_screen(ModelsScreen()); nothing stops the handler of a
\* stream in progress, which keeps its reference to the ChatScreen.
ChatScreen_action_list_models(s) ==
  /\ ChatActive(s)
  /\ screen_stack' = Switch(screen_stack, NewModelsScreen)
  /\ chats' = Collect(chats, screen_stack')
  /\ UNCHANGED <<app, turns_taken, fs>>

(***************************************************************************)
(* ErrorScreen and quitting.                                               *)
(***************************************************************************)
\* self.app.pop_screen(); the base screen is beneath every pushed screen.
ErrorScreen_action_back ==
  /\ app = "running"
  /\ Top.kind = "Error"
  /\ screen_stack' = Pop(screen_stack)
  /\ UNCHANGED <<app, chats, turns_taken, fs>>

\* action_quit of the three screens: self.app.exit().  The process ends and
\* its objects with it.
action_quit ==
  /\ app = "running"
  /\ Top.kind \in {"Models", "Chat", "Error"}
  /\ app' = "exited"
  /\ screen_stack' = <<>>
  /\ chats' = <<>>
  /\ turns_taken' = 0
  /\ fs' = fs

Next ==
  \/ \E cat \in Catalogs : OllamaCLI_on_mount(cat)
  \/ \E cat \in Catalogs : ModelsScreen_on_mount(cat)
  \/ \E cat \in Catalogs : ModelsScreen_action_refresh_models(cat)
  \/ \E n \in ModelNames : ModelsScreen_on_data_table_row_selected(n)
  \/ ChatScreen_on_mount
  \/ \E s \in 1..Len(chats) : \E p \in SelectedFiles :
       ChatScreen_on_directory_tree_file_selected(s, p)
  \/ \E s \in 1..Len(chats) : \E p \in SelectedDirs :
       ChatScreen_on_directory_tree_directory_selected(s, p)
  \/ \E s \in 1..Len(chats) : \E t \in UserTexts : ChatScreen_on_input_submitted(s, t)
  \/ \E s \in 1..Len(chats) : \E c \in Chunks : StreamPart(s, c)
  \/ \E s \in 1..Len(chats) : StreamCompleted(s)
  \/ \E s \in 1..Len(chats) : \E e \in ErrorTexts : StreamFailed(s, e)
  \/ \E s \in 1..Len(chats) : ChatScreen_action_list_models(s)
  \/ ErrorScreen_action_back
  \/ action_quit

Spec == Init /\ [][Next]_vars

\* The code's scheduling: a stream that was opened ends, by completion or
\* by failure, unless the application exits first.
StreamEndsFair(s) ==
  WF_vars(StreamCompleted(s) \/ \E e \in ErrorTexts : StreamFailed(s, e))

FairSpec == Spec /\ \A s \in 1..MaxSessions : StreamEndsFair(s)

(***************************************************************************)
(* The directory loader over the filesystems of Trees: a mounted           *)
(* ChatScreen is the active screen, and the user selects directories.      *)
(***************************************************************************)
WalkInit ==
  /\ app = "running"
  /\ screen_stack = <<DefaultScreen, [NewChatEntry(1) EXCEPT !.mounted = TRUE]>>
  /\ chats = <<NewChatScreen(<<"m">>)>>
  /\ turns_taken = 0
  /\ fs \in Trees

WalkNext ==
  \E s \in 1..Len(chats) : \E n \in { m \in fs : m.dir } :
    ChatScreen_on_directory_tree_directory_selected(s, n.path)

WalkSpec == WalkInit /\ [][WalkNext]_vars

(***************************************************************************)
(* Vocabulary of the properties.                                           *)
(***************************************************************************)
Sessions == DOMAIN chats

Streaming(s) == s \in DOMAIN chats /\ chats[s].pc = "streaming"

LastContent(c) == c.messages[Len(c.messages)].content

\* The step is an accepted submit of the non-empty text t on ChatScreen s.
Submitted(s, t) == t # <<>> /\ ChatScreen_on_input_submitted(s, t)

\* The text sent for userText with the bundle (label, payload) merged in.
Expanded(label, payload, userText) ==
  <<"The user has provided context from ">> \o label \o <<".\n">> \o payload
  \o <<"\n\n">> \o <<"Based on this, respond to: ">> \o userText

\* The payloads of the bundles the selections of the model produce.
Payloads ==
  { FileBundle(Tree, p)[2] : p \in { q \in SelectedFiles : Node(Tree, q).read = "ok" } }
  \cup { DirBundle(Tree, p)[2] : p \in SelectedDirs }

\* The request of ChatScreen s is on its way: the submit step was the last
\* step of s.
JustSubmitted(s) ==
  /\ s \in DOMAIN chats
  /\ chats[s].pc = "streaming"
  /\ chats[s].api_messages # <<>>

(***************************************************************************)
(* C1.  At most one streaming request per ChatScreen is outstanding in     *)
(* every reachable state: a session is Streaming exactly while it has one  *)
(* request outstanding, and its Input is disabled for that whole time, so  *)
(* that no submit reaches the handler of a Streaming session.              *)
(***************************************************************************)
C1_OneOutstandingRequest ==
  \A s \in Sessions :
    /\ chats[s].requests <= 1
    /\ chats[s].pc = "streaming" <=> chats[s].requests = 1
    /\ chats[s].pc = "streaming" => chats[s].disabled

\* A second turn is streaming: the first stream ended and a later submit was
\* accepted, with one request outstanding.
C1_Witness ==
  \E s \in Sessions :
    /\ chats[s].pc = "streaming" /\ chats[s].requests = 1
    /\ Len(chats[s].messages) = 4
    /\ chats[s].delivered # <<>>

(***************************************************************************)
(* C2.  When a stream has delivered deltas d1..dk (k >= 1) and then fails, *)
(* the final content of the placeholder Assistant message contains         *)
(* d1 ++ ... ++ dk together with the failure notice.                       *)
(***************************************************************************)
C2_PartialTextKeptOnFailure ==
  [][\A s \in Sessions : \A e \in ErrorTexts :
       ( /\ StreamFailed(s, e)
         /\ chats[s].delivered # <<>>
         /\ OnStack(screen_stack, s) )
       => /\ Contains(LastContent(chats'[s]), Flatten(chats[s].delivered))
          /\ Contains(LastContent(chats'[s]), <<"An error occurred: ">>)]_vars

(***************************************************************************)
(* C3.  Once the user has switched from the Chat screen to Models while    *)
(* the chat's session is Streaming, no part of the stream that arrives     *)
(* afterwards changes that session's message history.                      *)
(***************************************************************************)
C3_NoDeltaAfterSwitch ==
  [][\A s \in Sessions : \A chunk \in Chunks :
       (StreamPart(s, chunk) /\ ~OnStack(screen_stack, s))
       => chats'[s].messages = chats[s].messages]_vars

(***************************************************************************)
(* C4.  When a stream completes, the final content of the placeholder      *)
(* Assistant message is exactly d1 ++ d2 ++ ... ++ dn for the parts        *)
(* d1..dn the stream delivered, whatever their boundaries and whichever of *)
(* them are empty: streams with the same concatenation end with the same   *)
(* content.                                                                *)
(***************************************************************************)
C4_FinalContentIsConcatenation ==
  [][\A s \in Sessions :
       (StreamCompleted(s) /\ OnStack(screen_stack, s))
       => /\ LastContent(chats'[s]) = Flatten(chats[s].delivered)
          /\ \A st \in Streams :
               Flatten(st) = Flatten(chats[s].delivered)
               => LastContent(chats'[s]) = Flatten(st)]_vars

\* A stream has completed with final content "ab": the session is Idle and
\* its last message holds the text without the cursor mark.
C4_Witness ==
  \E s \in Sessions :
    /\ chats[s].pc = "idle" /\ ~chats[s].disabled
    /\ Len(chats[s].messages) = 2
    /\ LastContent(chats[s]) = <<"a", "b">>

(***************************************************************************)
(* C5.  A non-empty submit on an Idle session grows the history by exactly *)
(* 2 in the submit step itself, before any part of the stream is applied:  *)
(* a User message holding userText, then an Assistant message with empty   *)
(* content.                                                                *)
(***************************************************************************)
C5_SubmitAppendsTwo ==
  [][\A s \in Sessions : \A t \in UserTexts :
       Submitted(s, t)
       => /\ chats[s].pc = "idle"
          /\ Len(chats'[s].messages) = Len(chats[s].messages) + 2
          /\ chats'[s].messages =
               chats[s].messages \o << Message("user", t), Message("assistant", <<>>) >>
          /\ chats'[s].delivered = <<>>
          /\ chats'[s].full_response = <<>>]_vars

\* The second turn of a session was just submitted: history holds the first
\* turn, then the new User message and its empty placeholder.
C5_Witness ==
  \E s \in Sessions :
    /\ JustSubmitted(s)
    /\ chats[s].delivered = <<>>
    /\ Len(chats[s].messages) = 4
    /\ chats[s].messages[3] = Message("user", <<"h">>)
    /\ chats[s].messages[4] = Message("assistant", <<>>)

(***************************************************************************)
(* C6.  Whenever a stream ends, by completion or by failure, its session   *)
(* is Idle again with the Input enabled, so that a later submit reaches    *)
(* the handler; and, streams ending eventually, every Streaming session    *)
(* eventually stops Streaming (it is Idle, or was left and collected, or   *)
(* the application has exited).                                            *)
(***************************************************************************)
C6_StreamEndReturnsToIdle ==
  /\ [][\A s \in Sessions :
          ( /\ StreamCompleted(s) \/ \E e \in ErrorTexts : StreamFailed(s, e)
            /\ OnStack(screen_stack, s) )
          => /\ chats'[s].pc = "idle"
             /\ chats'[s].requests = 0
             /\ ~chats'[s].disabled]_vars
  /\ \A s \in 1..MaxSessions :
       Streaming(s) ~> ( \/ app = "exited"
                         \/ s \in DOMAIN chats /\ chats[s].pc \in {"idle", "gone"} )

\* A submit was accepted after the previous stream of the session failed.
C6_Witness ==
  \E s \in Sessions :
    /\ JustSubmitted(s)
    /\ Len(chats[s].messages) = 4
    /\ IsPrefix(<<"An error occurred: ">>, chats[s].messages[2].content)

(***************************************************************************)
(* C7.  When a ContextBundle is pending at submit time, the User message   *)
(* recorded in history holds the original userText only, and the last      *)
(* message of the outgoing request is the expanded prompt: the explanation *)
(* naming the label, the payload, then "Based on this, respond to: " and   *)
(* userText.  No message of any history ever contains a bundle payload.    *)
(***************************************************************************)
C7_ContextOnlyInRequest ==
  /\ [][\A s \in Sessions : \A t \in UserTexts :
          (Submitted(s, t) /\ chats[s].file_context # None)
          => LET c == chats'[s]
             IN  /\ c.messages[Len(c.messages) - 1] = Message("user", t)
                 /\ c.api_messages[Len(c.api_messages)] =
                      Message("user", Expanded(chats[s].file_context[1],
                                               chats[s].file_context[2], t))]_vars
  /\ [](\A s \in Sessions : \A i \in 1..Len(chats[s].messages) : \A p \in Payloads :
          p # <<>> /\ ~Contains(chats[s].messages[i].content, p))

\* A turn was just submitted with the bundle of the file a.py pending.
C7_Witness ==
  \E s \in Sessions :
    LET c == chats[s]
    IN  /\ JustSubmitted(s)
        /\ Contains(c.api_messages[Len(c.api_messages)].content,
                    FileBundle(Tree, <<NameAPy>>)[2])
        /\ c.messages[Len(c.messages) - 1].content = <<"h">>

(***************************************************************************)
(* C8.  A ContextBundle is one-shot.  file_context holds no bundle or one  *)
(* (label, payload) pair; a successful selection makes the selected node's *)
(* bundle the pending one, whatever was pending; every accepted submit     *)
(* leaves no bundle pending; and a submit with no bundle pending sends     *)
(* userText alone, so a bundle goes into at most one request.              *)
(***************************************************************************)
C8_BundleIsOneShot ==
  /\ [](\A s \in Sessions : Len(chats[s].file_context) \in {0, 2})
  /\ [][\A s \in Sessions :
          /\ \A p \in SelectedFiles :
               ( /\ ChatScreen_on_directory_tree_file_selected(s, p)
                 /\ Node(Tree, p).read = "ok" )
               => chats'[s].file_context = FileBundle(Tree, p)
          /\ \A p \in SelectedDirs :
               ChatScreen_on_directory_tree_directory_selected(s, p)
               => chats'[s].file_context = DirBundle(Tree, p)
          /\ \A t \in UserTexts :
               /\ Submitted(s, t) => chats'[s].file_context = None
               /\ (Submitted(s, t) /\ chats[s].file_context = None)
                  => chats'[s].api_messages[Len(chats'[s].api_messages)].content = t]_vars

\* The second turn of a session was just submitted with a directory bundle
\* pending: the bundle is in the request and nothing is pending any more.
C8_Witness ==
  \E s \in Sessions :
    LET c == chats[s]
    IN  /\ JustSubmitted(s)
        /\ Len(c.messages) = 4
        /\ c.file_context = None
        /\ Contains(c.api_messages[Len(c.api_messages)].content,
                    DirBundle(Tree, <<>>)[2])

(***************************************************************************)
(* C9.  The messages sent with a streaming request are the history as it   *)
(* stood before the submit, in order and unchanged, followed by exactly    *)
(* one User message for the current turn, whose content ends with          *)
(* userText; the request is one shorter than the new history, the          *)
(* placeholder not being part of it.                                       *)
(***************************************************************************)
C9_RequestIsHistoryPlusUser ==
  [][\A s \in Sessions : \A t \in UserTexts :
       Submitted(s, t)
       => LET api    == chats'[s].api_messages
              before == chats[s].messages
              sent   == api[Len(api)]
          IN  /\ Len(api) = Len(before) + 1
              /\ Len(api) = Len(chats'[s].messages) - 1
              /\ SubSeq(api, 1, Len(before)) = before
              /\ sent.role = "user"
              /\ Len(sent.content) >= Len(t)
              /\ SubSeq(sent.content, Len(sent.content) - Len(t) + 1,
                        Len(sent.content)) = t]_vars

\* The request of a second turn: the first turn's two messages, then the
\* User message of the second.
C9_Witness ==
  \E s \in Sessions :
    LET c == chats[s]
    IN  /\ JustSubmitted(s)
        /\ Len(c.api_messages) = 3
        /\ c.api_messages[1] = Message("user", <<"h">>)
        /\ c.api_messages[2] = Message("assistant", <<"a", "b">>)
        /\ c.api_messages[3] = Message("user", <<"h">>)

(***************************************************************************)
(* C10.  A submit with empty userText is a no-op: the message history, the *)
(* pending ContextBundle, the Idle/Streaming state with the Input's        *)
(* enabled flag, and the screen stack are unchanged and no streaming       *)
(* request is started.                                                     *)
(***************************************************************************)
C10_EmptySubmitIsNoOp ==
  [][\A s \in Sessions :
       ChatScreen_on_input_submitted(s, <<>>)
       => UNCHANGED <<app, screen_stack, chats, turns_taken, fs>>]_vars

\* An empty submit can arrive, and leaves this very state: the active
\* ChatScreen is Idle with its Input enabled, has a turn of history and a
\* bundle pending.
C10_Witness ==
  \E s \in Sessions :
    /\ ChatActive(s) /\ ~chats[s].disabled
    /\ <<>> \in UserTexts
    /\ Len(chats[s].messages) = 2
    /\ chats[s].file_context # None
    /\ chats[s].pc = "idle"

(***************************************************************************)
(* Vocabulary of the navigation properties.                                *)
(***************************************************************************)
\* The kinds of the screens of a stack, bottom first.
Kinds(stack) == [i \in 1..Len(stack) |-> stack[i].kind]

\* The screens of the application on a stack: all but the base screen.
RECURSIVE AppScreens(_)
AppScreens(stack) ==
  IF stack = <<>> THEN <<>>
  ELSE IF Head(stack).kind = "Default" THEN AppScreens(Tail(stack))
  ELSE <<Head(stack)>> \o AppScreens(Tail(stack))

\* The screens beneath the top one.
Beneath(stack) == SubSeq(stack, 1, Len(stack) - 1)

(***************************************************************************)
(* C11.  When the startup catalog query fails, the Error screen is pushed  *)
(* with no screen of the application beneath it, and the back action on    *)
(* that Error screen is disabled: it does not pop the Error screen, the    *)
(* screen stack is the same after it.                                      *)
(***************************************************************************)
C11_StartupErrorBackDisabled ==
  /\ [][\A cat \in Catalogs :
          (OllamaCLI_on_mount(cat) /\ ~cat.ok)
          => Kinds(AppScreens(screen_stack')) = <<"Error">>]_vars
  /\ [][(ErrorScreen_action_back /\ Kinds(AppScreens(screen_stack)) = <<"Error">>)
          => UNCHANGED screen_stack]_vars

(***************************************************************************)
(* C12.  From the first screen startup routing pushes until quit, in every *)
(* reachable state the stack of application screens (Models, Chat, Error)  *)
(* is non-empty and the active screen, the top of the stack, is one of     *)
(* them.                                                                   *)
(***************************************************************************)
C12_StackNeverEmpty ==
  app = "running"
  => /\ AppScreens(screen_stack) # <<>>
     /\ Top.kind \in {"Models", "Chat", "Error"}
     /\ Top = AppScreens(screen_stack)[Len(AppScreens(screen_stack))]

\* Startup routing as a relation of the catalog result and the step:
\* toChat tells whether the result opens the Chat screen directly.
RoutedAs(cat, toChat) ==
  LET pushed == screen_stack'[Len(screen_stack')]
  IN  /\ Len(screen_stack') = Len(screen_stack) + 1
      /\ Beneath(screen_stack') = screen_stack
      /\ IF ~cat.ok
         THEN pushed.kind = "Error" /\ chats' = chats
         ELSE IF toChat
         THEN /\ pushed.kind = "Chat"
              /\ pushed.sid \in DOMAIN chats' /\ pushed.sid \notin DOMAIN chats
              /\ chats'[pushed.sid].model_name = cat.models[1]
              /\ \A i \in 1..Len(screen_stack') : screen_stack'[i].kind # "Models"
         ELSE pushed.kind = "Models" /\ chats' = chats

(***************************************************************************)
(* C13.  Startup routing by catalog result: a failed query pushes Error    *)
(* and neither Models nor Chat; a catalog of exactly one model that has a  *)
(* name pushes Chat for that model, with no Models screen on the stack;    *)
(* every other catalog (no model, several models, or a single entry        *)
(* without a name) pushes Models.                                          *)
(***************************************************************************)
C13_StartupRouting ==
  [][\A cat \in Catalogs :
       OllamaCLI_on_mount(cat)
       => RoutedAs(cat, Len(cat.models) = 1 /\ cat.models[1] # <<>>)]_vars

\* C13 as stated: every catalog of exactly one model pushes Chat.
C13_OneModelAlwaysChat ==
  [][\A cat \in Catalogs :
       OllamaCLI_on_mount(cat) => RoutedAs(cat, Len(cat.models) = 1)]_vars

\* Startup has opened the Chat screen of the only model directly.
C13_Witness ==
  /\ app = "running"
  /\ Kinds(screen_stack) = <<"Default", "Chat">>
  /\ ~screen_stack[2].mounted
  /\ chats[screen_stack[2].sid].model_name = <<"m">>

(***************************************************************************)
(* C14.  The list-models action replaces the Chat screen at the top of the *)
(* stack with Models: the screens beneath are the same and the Chat screen *)
(* is no longer on the stack.  Every Chat screen entered afterwards is a   *)
(* new one: selecting a model creates a session with empty history and no  *)
(* pending bundle and leaves the earlier sessions as they are, and a Chat  *)
(* screen that has just been pushed holds no message and no bundle.        *)
(***************************************************************************)
C14_ListModelsReplacesChat ==
  /\ [][\A s \in Sessions :
          ChatScreen_action_list_models(s)
          => /\ Len(screen_stack') = Len(screen_stack)
             /\ Beneath(screen_stack') = Beneath(screen_stack)
             /\ screen_stack'[Len(screen_stack')].kind = "Models"
             /\ ~OnStack(screen_stack', s)]_vars
  /\ [][\A n \in ModelNames :
          ModelsScreen_on_data_table_row_selected(n)
          => LET pushed == screen_stack'[Len(screen_stack')]
             IN  /\ pushed.kind = "Chat"
                 /\ pushed.sid \notin DOMAIN chats
                 /\ chats'[pushed.sid].model_name = n
                 /\ chats'[pushed.sid].messages = <<>>
                 /\ chats'[pushed.sid].file_context = None
                 /\ \A s \in Sessions : chats'[s] = chats[s]]_vars
  /\ [](\A s \in Sessions :
          (app = "running" /\ Top.kind = "Chat" /\ Top.sid = s /\ ~Top.mounted)
          => chats[s].messages = <<>> /\ chats[s].file_context = None)

\* A Chat screen entered after list-models: the session left behind still
\* holds its turn, the new one is empty and is the active screen.
C14_Witness ==
  /\ app = "running"
  /\ Len(chats) = 2
  /\ chats[1].messages # <<>> /\ ~OnStack(screen_stack, 1)
  /\ Top.kind = "Chat" /\ Top.sid = 2
  /\ chats[2].messages = <<>> /\ chats[2].file_context = None

(***************************************************************************)
(* C15.  A refresh on the Models screen re-runs the catalog query in       *)
(* place: with a non-empty result the screens of the stack are the same;   *)
(* with an empty result exactly one Error screen is pushed on the Models   *)
(* screen, and back on an Error screen that lies on a Models screen pops   *)
(* it, which makes that Models screen the active one again.                *)
(***************************************************************************)
C15_RefreshInPlace ==
  /\ [][\A cat \in Catalogs :
          (ModelsScreen_action_refresh_models(cat) /\ cat.ok)
          => IF cat.models # <<>>
             THEN /\ Kinds(screen_stack') = Kinds(screen_stack)
                  /\ Beneath(screen_stack') = Beneath(screen_stack)
             ELSE /\ Kinds(screen_stack') = Append(Kinds(screen_stack), "Error")
                  /\ Beneath(Beneath(screen_stack')) = Beneath(screen_stack)]_vars
  /\ [][( /\ ErrorScreen_action_back
          /\ Len(screen_stack) >= 2
          /\ screen_stack[Len(screen_stack) - 1].kind = "Models" )
          => /\ screen_stack' = Beneath(screen_stack)
             /\ screen_stack'[Len(screen_stack')] = screen_stack[Len(screen_stack) - 1]]_vars

\* The state an empty refresh leaves: the "No models found" Error screen on
\* a Models screen whose table was cleared.
C15_Witness ==
  /\ app = "running"
  /\ Kinds(screen_stack) = <<"Default", "Models", "Error">>
  /\ screen_stack[2].mounted /\ screen_stack[2].rows = <<>>
  /\ Contains(screen_stack[3].error_message,
              <<"No models found. Pull a model with 'ollama run <model_name>'">>)

(***************************************************************************)
(* Vocabulary of the directory walk.                                       *)
(***************************************************************************)
\* The files of tree below the directory root.
FilesBelow(tree, root) ==
  { n \in tree : ~n.dir /\ Len(n.path) > Len(root) /\ IsPrefix(root, n.path) }

\* The file n is to be included: none of the directories from `from` on that
\* lead to it is named in the ignore-set, its extension is not in the
\* ignore-set, and it reads as text.
Wanted(n, from) ==
  /\ \A i \in from..(Len(n.path) - 1) : n.path[i] \notin ignored_dirs
  /\ SplitExt(n.path[Len(n.path)]) \notin ignored_extensions
  /\ n.read = "ok"

\* The marker line of the file n in a bundle loaded from root.
Marker(n, root) ==
  <<"--- FILE: ">> \o PathStr(root) \o <<"/">>
  \o JoinPath(SubSeq(n.path, Len(root) + 1, Len(n.path))) \o <<" ---\n">>

\* The bundle of the directory root holds exactly the files of `included`:
\* one block per file, and the label counts them.
BundleHolds(bundle, tree, root, included) ==
  /\ Len(bundle) = 2
  /\ bundle[1] = <<ToString(Cardinality(included)), " files from '">>
                 \o BaseName(root) \o <<"'">>
  /\ Cardinality({ i \in 1..Len(bundle[2]) : bundle[2][i] = "--- FILE: " })
       = Cardinality(included)
  /\ \A n \in FilesBelow(tree, root) :
       n \in included
       <=> Contains(bundle[2], Marker(n, root) \o n.content \o <<"\n\n">>)

(***************************************************************************)
(* C16.  Loading a directory includes exactly the files below it that are  *)
(* not under a directory, below the selected one, named in the ignore-set  *)
(* (.git, .venv, __pycache__), whose extension is not in the ignore-set    *)
(* (.pyc, .lock) and that read as text; the count in the bundle label is   *)
(* the number of included files, and a file that fails to read is skipped  *)
(* without ending the walk.                                                *)
(***************************************************************************)
C16_DirectoryWalkFilter ==
  [][\A s \in Sessions : \A d \in { m \in fs : m.dir } :
       ChatScreen_on_directory_tree_directory_selected(s, d.path)
       => BundleHolds(chats'[s].file_context, fs, d.path,
                      { n \in FilesBelow(fs, d.path) : Wanted(n, Len(d.path) + 1) })]_vars

\* C16 as stated: no directory at all on the way to an included file is
\* named in the ignore-set, the selected directory and those above it
\* included.
C16_NoIgnoredDirectoryAbove ==
  [][\A s \in Sessions : \A d \in { m \in fs : m.dir } :
       ChatScreen_on_directory_tree_directory_selected(s, d.path)
       => BundleHolds(chats'[s].file_context, fs, d.path,
                      { n \in FilesBelow(fs, d.path) : Wanted(n, 1) })]_vars

\* The root of a tree was loaded whose root file does not decode and whose
\* directory sub holds cfg and the ignored .venv: one file is included.
C16_Witness ==
  /\ fs = MkTree(NameSub, NameVenv, NameAPy, "UnicodeDecodeError")
  /\ Len(chats) = 1
  /\ chats[1].file_context # None
  /\ chats[1].file_context[1] = <<"1", " files from '", ".", "'">>
  /\ Contains(chats[1].file_context[2], <<"g">>)

(***************************************************************************)
(* C17.  A file selection whose read fails leaves the conversation state   *)
(* unchanged: the message history, the pending bundle if there is one, the *)
(* Idle/Streaming state and the Input's enabled flag are the same after    *)
(* it, for the session and for every other, and nothing of the file        *)
(* becomes pending context.                                                *)
(***************************************************************************)
C17_FailedReadChangesNothing ==
  [][\A s \in Sessions : \A p \in SelectedFiles :
       ( /\ ChatScreen_on_directory_tree_file_selected(s, p)
         /\ Node(fs, p).read # "ok" )
       => /\ chats'[s].messages = chats[s].messages
          /\ chats'[s].file_context = chats[s].file_context
          /\ chats'[s].pc = chats[s].pc
          /\ chats'[s].disabled = chats[s].disabled
          /\ chats' = chats
          /\ UNCHANGED <<app, screen_stack>>]_vars

\* A file that does not decode can be selected, and its selection leaves
\* this very state: the active ChatScreen is Streaming with a part applied
\* and has a bundle pending.
C17_Witness ==
  \E s \in Sessions :
    /\ ChatActive(s)
    /\ chats[s].pc = "streaming" /\ chats[s].delivered # <<>>
    /\ chats[s].file_context = FileBundle(fs, <<NameAPy>>)
    /\ \E p \in SelectedFiles : Node(fs, p).read = "UnicodeDecodeError"

(***************************************************************************)
(* C18.  A stream failure does not change the history length: the error    *)
(* notice becomes the content of the placeholder Assistant message, the    *)
(* messages before it are the same, and no message is appended.            *)
(***************************************************************************)
C18_FailureReplacesPlaceholder ==
  [][\A s \in Sessions : \A e \in ErrorTexts :
       (StreamFailed(s, e) /\ OnStack(screen_stack, s))
       => LET before == chats[s].messages
              after  == chats'[s].messages
          IN  /\ Len(after) = Len(before)
              /\ \A i \in 1..(Len(before) - 1) : after[i] = before[i]
              /\ after[Len(after)] =
                   Message("assistant", <<"An error occurred: ">> \o e)]_vars

\* The stream of the first turn has failed: the history is the User message
\* and the notice.
C18_Witness ==
  \E s \in Sessions :
    /\ chats[s].pc = "idle" /\ OnStack(screen_stack, s)
    /\ chats[s].messages =
         << Message("user", <<"h">>),
            Message("assistant", <<"An error occurred: ", "x">>) >>

(***************************************************************************)
(* C19.  While the session is Streaming the content of the placeholder     *)
(* Assistant message grows monotonically: after each part the stored       *)
(* content is the content stored before followed by the part, and the      *)
(* content stored when the stream ends is a prefix of the final content.   *)
(***************************************************************************)
C19_ContentGrowsByChunk ==
  /\ [][\A s \in Sessions : \A chunk \in Chunks :
          StreamPart(s, chunk)
          => LastContent(chats'[s]) = LastContent(chats[s]) \o chunk]_vars
  /\ [][\A s \in Sessions :
          ( /\ StreamCompleted(s) \/ \E e \in ErrorTexts : StreamFailed(s, e)
            /\ OnStack(screen_stack, s) )
          => IsPrefix(LastContent(chats[s]), LastContent(chats'[s]))]_vars

(***************************************************************************)
(* C20.  In every reachable state the history of a chat session has even   *)
(* length and its roles alternate User, Assistant from the first message.  *)
(* While the ChatScreen exists no message is removed or reordered, and a   *)
(* step changes the content of a message already there only if it is the   *)
(* last one, an Assistant message, and the session is Streaming.           *)
(***************************************************************************)
C20_HistoryAlternates ==
  /\ [](\A s \in Sessions :
          LET m == chats[s].messages
          IN  /\ Len(m) % 2 = 0
              /\ \A i \in 1..Len(m) :
                   m[i].role = IF i % 2 = 1 THEN "user" ELSE "assistant")
  /\ [][\A s \in Sessions :
          (s \in DOMAIN chats' /\ chats'[s].pc # "gone")
          => LET before == chats[s].messages
                 after  == chats'[s].messages
             IN  /\ Len(after) >= Len(before)
                 /\ \A i \in 1..Len(before) :
                      /\ after[i].role = before[i].role
                      /\ after[i] # before[i]
                         => /\ i = Len(before)
                            /\ before[i].role = "assistant"
                            /\ chats[s].pc = "streaming"]_vars

\* Two turns have completed on one ChatScreen.
C20_Witness ==
  \E s \in Sessions :
    /\ chats[s].pc = "idle" /\ OnStack(screen_stack, s)
    /\ Len(chats[s].messages) = 4
    /\ chats[s].messages[2].content = <<"a", "b">>
    /\ chats[s].messages[4].content = <<"a", "b">>

====
